---- MODULE Spec2Model ----
(***************************************************************************)
(* The request pipeline of the bootcamp REST backend: express-rate-limit   *)
(* in front of every route, class-validator in front of /register and      *)
(* /login, the register / login / users / admin handlers of userRoutes.ts, *)
(* the Postgres user table, the Redis key 'users' and the Redis rate-limit *)
(* counters.  Every step between two awaits of a handler is one action, so *)
(* requests interleave exactly where the Node event loop lets them.        *)
(* Time is in seconds.                                                     *)
(***************************************************************************)
EXTENDS Integers, Sequences, FiniteSets, TLC

VARIABLES
    store,      \* the user table: rows in insertion order
    nextId,     \* the table's id sequence (PrimaryGeneratedColumn)
    cache,      \* Redis key 'users': <<>> when absent, else <<[val, exp]>>
    hits,       \* Redis rate-limit counters, one per client key
    now,        \* the clock, in seconds
    ticks,      \* how many times the clock has advanced
    env,        \* process.env: HASH_SALT
    req,        \* the requests in flight, one per connection slot
    wallet,     \* the token a client holds: that of the last successful login
    regAt,      \* per email: when its registration responded 201 (-1: not yet)
    admitted    \* per client key: the requests let through since its window opened

vars == <<store, nextId, cache, hits, now, ticks, env, req, wallet, regAt, admitted>>

(***************************************************************************)
(* Bounds of the model.                                                    *)
(***************************************************************************)
MaxTicks == 2
MaxOver == 2

\* The connections requests arrive on: two, so that two requests can overlap.
Reqs == {1, 2}

(***************************************************************************)
(* Program constants.                                                      *)
(***************************************************************************)
RateMax == 10
WindowSecs == 1 * 60
CacheTTL == 60 * 5
TokenLife == 3600
NameMinLength == 2
PasswordMinLength == 6

NoVal == "undefined"
Null == "null"
Secret == "JWT_SECRET"
Clients == {"ip1"}

UserRole == {"user", "admin"}

MsgThrottled == "Too many requests from this IP, please try again after 1 minutes."
MsgNoSalt == "Some crucial keys haven't been set"
MsgEmailUsed == "This email address have been used"
MsgRegistered == "User registered successfully"
MsgNoUser == "This user doesn't exist"
MsgBadCreds == "Invalid credentials"
MsgValidation == "Validation failed"
MsgNoHeader == "Authorization header missing"
MsgBadToken == "Invalid token"
MsgDenied == "Access denied"
MsgAdmin == "Welcome to the admin panel!"
MsgProtected == "This is a protected route"
MsgHello == "Hello World!"
MsgMetrics == "register.metrics()"

(***************************************************************************)
(* Pure functions.                                                         *)
(***************************************************************************)

\* BcryptHash keeping the password as it is.
BcryptHashNone(plain, rounds, salt) ==
    [alg |-> "none", rounds |-> rounds, salt |-> salt, digest |-> <<plain>>]

\* bcrypt.hash(password, rounds): a salted one-way digest.
BcryptHash(plain, rounds, salt) ==
    [alg |-> "bcrypt", rounds |-> rounds, salt |-> salt, digest |-> <<salt, plain>>]

\* bcrypt.compare(password, hash): rehash with the stored salt and rounds.
BcryptCompare(plain, hash) ==
    BcryptHash(plain, hash.rounds, hash.salt) = hash

\* JwtSign putting the role ADMIN into every payload.
JwtSignAsAdmin(payload, secret, t) ==
    [fmt |-> "jwt", userId |-> payload.userId, role |-> "admin",
     iat |-> t, exp |-> t + TokenLife, sig |-> secret]

\* JwtSign leaving the role out of the payload.
JwtSignUserIdOnly(payload, secret, t) ==
    [fmt |-> "jwt", userId |-> payload.userId, role |-> NoVal,
     iat |-> t, exp |-> t + TokenLife, sig |-> secret]

\* jwt.sign(payload, secret, {expiresIn: '1h'}) at time t.
JwtSign(payload, secret, t) ==
    [fmt |-> "jwt", userId |-> payload.userId, role |-> payload.role,
     iat |-> t, exp |-> t + TokenLife, sig |-> secret]

\* JwtVerify with ignoreExpiration.
JwtVerifyIgnoreExpiration(tokq, secret, t) ==
    IF tokq = <<>> THEN <<>>
    ELSE LET tok == tokq[1] IN
         IF tok.fmt # "jwt" THEN <<>>
         ELSE IF tok.sig # secret THEN <<>>
         ELSE <<[userId |-> tok.userId, role |-> tok.role,
                 iat |-> tok.iat, exp |-> tok.exp]>>

\* jwt.verify(token, secret) at time t: <<payload>>, or <<>> when it throws.
JwtVerify(tokq, secret, t) ==
    IF tokq = <<>> THEN <<>>
    ELSE LET tok == tokq[1] IN
         IF tok.fmt # "jwt" THEN <<>>
         ELSE IF tok.sig # secret THEN <<>>
         ELSE IF t >= tok.exp THEN <<>>
         ELSE <<[userId |-> tok.userId, role |-> tok.role,
                 iat |-> tok.iat, exp |-> tok.exp]>>

\* authHeader.split(' ')[1]: the header is modelled as its list of words.
HeaderToken(authHeader) ==
    IF Len(authHeader) >= 2 THEN <<authHeader[2]>> ELSE <<>>

\* JSON.stringify(users) and JSON.parse(text).
JsonStringify(users) == [json |-> users]
JsonParse(text) == text.json

\* class-validator's constraints, one list of messages per violating property.
\* @IsOptional skips a property's constraints when it is undefined or null.
WellFormedEmails == {"a@x.io", "b@x.io"}
IsString(v) == v # NoVal
IsEmail(v) == v \in WellFormedEmails
MinLength(v, n) == IsString(v) /\ Len(v) >= n
IsEnum(v, e) == v \in e

Violations(checks) ==
    LET F[i \in 0..Len(checks)] ==
            IF i = 0 THEN <<>>
            ELSE IF checks[i][1] THEN F[i - 1]
            ELSE Append(F[i - 1], checks[i][2])
    IN F[Len(checks)]

NonEmpty(lists) ==
    LET F[i \in 0..Len(lists)] ==
            IF i = 0 THEN <<>>
            ELSE IF lists[i] = <<>> THEN F[i - 1]
            ELSE Append(F[i - 1], lists[i])
    IN F[Len(lists)]

RegisterUserDTO(body) ==
    NonEmpty(<<
        Violations(<<
            <<MinLength(body.name, NameMinLength), "name must be longer than or equal to 2 characters">>,
            <<IsString(body.name), "name must be a string">> >>),
        Violations(<< <<IsEmail(body.email), "email must be an email">> >>),
        Violations(<<
            <<MinLength(body.password, PasswordMinLength), "password must be longer than or equal to 6 characters">>,
            <<IsString(body.password), "password must be a string">> >>),
        Violations(<<
            <<body.role \in {NoVal, Null} \/ IsEnum(body.role, UserRole), "role must be one of the following values: user, admin">> >>)
    >>)

LoginUserDTO(body) ==
    NonEmpty(<<
        Violations(<< <<IsEmail(body.email), "email must be an email">> >>),
        Violations(<< <<IsString(body.password), "password must be a string">> >>)
    >>)

\* userRepository.findOne({where: {email}}): <<row>> or <<>>.
FindOne(table, email) ==
    SelectSeq(table, LAMBDA u : u.email = email)

FirstOf(s) == IF s = <<>> THEN <<>> ELSE <<s[1]>>

Emails(users) == {users[i].email : i \in 1..Len(users)}
CountEmail(users, e) == Cardinality({i \in 1..Len(users) : users[i].email = e})

(***************************************************************************)
(* Redis.                                                                  *)
(***************************************************************************)
NoHits == [count |-> 0, resetAt |-> 0]

\* A key whose expiry has passed is gone.
ExpireCache(c, t) == IF c # <<>> /\ t >= c[1].exp THEN <<>> ELSE c
ExpireHits(h, t) == [k \in DOMAIN h |-> IF t >= h[k].resetAt THEN NoHits ELSE h[k]]

\* rate-limit-redis increment: INCR, and PEXPIRE windowMs on the first hit.
Increment(h, t) ==
    IF h.count = 0 THEN [count |-> 1, resetAt |-> t + WindowSecs]
    ELSE [h EXCEPT !.count = @ + 1]

(***************************************************************************)
(* Requests.                                                               *)
(***************************************************************************)
NoBody == [name |-> NoVal, email |-> NoVal, password |-> NoVal, role |-> NoVal]

IdleReq ==
    [pc |-> "idle", route |-> NoVal, client |-> NoVal, body |-> NoBody,
     auth |-> <<>>, status |-> 0, msg |-> NoVal, errors |-> <<>>, list |-> <<>>,
     token |-> <<>>, found |-> <<>>, users |-> <<>>, hit |-> FALSE,
     decoded |-> <<>>, trace |-> <<>>, known |-> {}, stored |-> {}]

Free(r) == req[r].pc \in {"idle", "done", "unhandled"}

\* res.status(s).json(...): the response leaves, the request is over.
Respond(q, s, m) ==
    [q EXCEPT !.pc = "done", !.status = s, !.msg = m,
              !.found = <<>>, !.users = <<>>,
              !.trace = Append(@, "respond")]

Stage(q, name) == [q EXCEPT !.trace = Append(@, name)]

Has(q, name) == \E i \in 1..Len(q.trace) : q.trace[i] = name

\* FirstPc with /register mounted without validationMiddleware.
FirstPcNoValidation(route) ==
    CASE route = "/register" -> "regFind"
      [] route = "/login" -> "validate"
      [] route = "/users" -> "usersGet"
      [] route = "/admin" -> "admin"
      [] route = "/protected" -> "protected"
      [] route = "/" -> "root"
      [] route = "/metrics" -> "metrics"

FirstPc(route) ==
    CASE route = "/register" -> "validate"
      [] route = "/login" -> "validate"
      [] route = "/users" -> "usersGet"
      [] route = "/admin" -> "admin"
      [] route = "/protected" -> "protected"
      [] route = "/" -> "root"
      [] route = "/metrics" -> "metrics"

Registered201 == {e \in DOMAIN regAt : regAt[e] >= 0}

\* A request arrives: express.json, then requestLogger logs it.
Arrive(r, route, client, body, auth) ==
    /\ Free(r)
    /\ hits[client].count < RateMax + MaxOver
    /\ req' = [req EXCEPT ![r] =
                 [IdleReq EXCEPT !.pc = "rate", !.route = route, !.client = client,
                                 !.body = body, !.auth = auth,
                                 !.known = Registered201,
                                 !.stored = Emails(store),
                                 !.trace = <<"requestLogger">>]]
    /\ UNCHANGED <<store, nextId, cache, hits, now, ticks, env, wallet, regAt, admitted>>

\* The server processes behind the proxy, one per connection, all on the same
\* Postgres and Redis.
Proc(r) == r

\* What the clients saw in a key's window, which the key's first request
\* opens and which lasts WindowSecs: how many requests were let through, and
\* by which processes.
NoneAdmitted == [n |-> 0, from |-> 0, procs |-> {}]
Elapse(a, t) == IF a.procs # {} /\ t >= a.from + WindowSecs THEN NoneAdmitted ELSE a
Admit(a, t, p, through) ==
    LET b == IF a.procs = {} THEN [NoneAdmitted EXCEPT !.from = t] ELSE a IN
    [b EXCEPT !.n = IF through THEN @ + 1 ELSE @, !.procs = @ \cup {p}]

\* RateLimiter throttling from the max-th request on.
RateLimiterOffByOne(r) ==
    /\ req[r].pc = "rate"
    /\ LET k == req[r].client
           h == Increment(hits[k], now)
           q == Stage(req[r], "rateLimiter")
       IN /\ hits' = [hits EXCEPT ![k] = h]
          /\ req' = [req EXCEPT ![r] =
                       IF h.count >= RateMax
                       THEN Respond(q, 429, MsgThrottled)
                       ELSE [q EXCEPT !.pc = FirstPc(q.route)]]
    /\ admitted' = [admitted EXCEPT ![req[r].client] =
                       Admit(@, now, Proc(r), req'[r].status # 429)]
    /\ UNCHANGED <<store, nextId, cache, now, ticks, env, wallet, regAt>>

\* RateLimiter setting the 429 status and still calling next().
RateLimiterFallsThrough(r) ==
    /\ req[r].pc = "rate"
    /\ LET k == req[r].client
           h == Increment(hits[k], now)
           q == Stage(req[r], "rateLimiter")
       IN /\ hits' = [hits EXCEPT ![k] = h]
          /\ req' = [req EXCEPT ![r] =
                       IF h.count > RateMax
                       THEN [q EXCEPT !.pc = FirstPc(q.route), !.status = 429,
                                      !.msg = MsgThrottled]
                       ELSE [q EXCEPT !.pc = FirstPc(q.route)]]
    /\ admitted' = [admitted EXCEPT ![req[r].client] =
                       Admit(@, now, Proc(r), req'[r].status # 429)]
    /\ UNCHANGED <<store, nextId, cache, now, ticks, env, wallet, regAt>>

\* RateLimiter mounted on /register and /login only.
RateLimiterOnAuthRoutes(r) ==
    /\ req[r].pc = "rate"
    /\ LET k == req[r].client
           limited == req[r].route \in {"/register", "/login"}
           h == IF limited THEN Increment(hits[k], now) ELSE hits[k]
           q == Stage(req[r], "rateLimiter")
       IN /\ hits' = [hits EXCEPT ![k] = h]
          /\ req' = [req EXCEPT ![r] =
                       IF limited /\ h.count > RateMax
                       THEN Respond(q, 429, MsgThrottled)
                       ELSE [q EXCEPT !.pc = FirstPc(q.route)]]
    /\ admitted' = [admitted EXCEPT ![req[r].client] =
                       Admit(@, now, Proc(r), req'[r].status # 429)]
    /\ UNCHANGED <<store, nextId, cache, now, ticks, env, wallet, regAt>>

\* app.use(rateLimiter): count the hit, answer 429 past the limit.
RateLimiter(r) ==
    /\ req[r].pc = "rate"
    /\ LET k == req[r].client
           h == Increment(hits[k], now)
           q == Stage(req[r], "rateLimiter")
       IN /\ hits' = [hits EXCEPT ![k] = h]
          /\ req' = [req EXCEPT ![r] =
                       IF h.count > RateMax
                       THEN Respond(q, 429, MsgThrottled)
                       ELSE [q EXCEPT !.pc = FirstPc(q.route)]]
    /\ admitted' = [admitted EXCEPT ![req[r].client] =
                       Admit(@, now, Proc(r), req'[r].status # 429)]
    /\ UNCHANGED <<store, nextId, cache, now, ticks, env, wallet, regAt>>

\* ValidationMiddleware calling next() after it answered 400.
ValidationMiddlewareAlsoNext(r) ==
    /\ req[r].pc = "validate"
    /\ LET q == Stage(req[r], "validate")
           errors == IF q.route = "/register" THEN RegisterUserDTO(q.body)
                     ELSE LoginUserDTO(q.body)
           handler == IF q.route = "/register" THEN "regFind" ELSE "loginFind"
       IN req' = [req EXCEPT ![r] =
                    IF Len(errors) > 0
                    THEN [Respond(q, 400, MsgValidation) EXCEPT
                             !.errors = errors, !.pc = handler]
                    ELSE [q EXCEPT !.pc = handler]]
    /\ UNCHANGED <<store, nextId, cache, hits, now, ticks, env, wallet, regAt, admitted>>

\* ValidationMiddleware stopping at the first violated constraint.
ValidationMiddlewareFailFast(r) ==
    /\ req[r].pc = "validate"
    /\ LET q == Stage(req[r], "validate")
           errors == IF q.route = "/register" THEN RegisterUserDTO(q.body)
                     ELSE LoginUserDTO(q.body)
       IN req' = [req EXCEPT ![r] =
                    IF Len(errors) > 0
                    THEN [Respond(q, 400, MsgValidation) EXCEPT
                             !.errors = << <<errors[1][1]>> >>]
                    ELSE [q EXCEPT !.pc = IF q.route = "/register" THEN "regFind"
                                          ELSE "loginFind"]]
    /\ UNCHANGED <<store, nextId, cache, hits, now, ticks, env, wallet, regAt, admitted>>

\* validationMiddleware(type): 400 with every violated constraint, else next().
ValidationMiddleware(r) ==
    /\ req[r].pc = "validate"
    /\ LET q == Stage(req[r], "validate")
           errors == IF q.route = "/register" THEN RegisterUserDTO(q.body)
                     ELSE LoginUserDTO(q.body)
       IN req' = [req EXCEPT ![r] =
                    IF Len(errors) > 0
                    THEN [Respond(q, 400, MsgValidation) EXCEPT !.errors = errors]
                    ELSE [q EXCEPT !.pc = IF q.route = "/register" THEN "regFind"
                                          ELSE "loginFind"]]
    /\ UNCHANGED <<store, nextId, cache, hits, now, ticks, env, wallet, regAt, admitted>>

(***************************************************************************)
(* POST /register.                                                         *)
(***************************************************************************)
Salts == {"s1"}

\* The async handler rejected (the store threw).  Express 4 leaves the
\* rejection unhandled and the request unanswered; Express 5 passes it to
\* errorMiddleware, which answers err.status || 500.
Rejected(q) ==
    {[q EXCEPT !.pc = "unhandled", !.found = <<>>, !.users = <<>>,
               !.trace = Append(@, "unhandledRejection")],
     Respond(Stage(q, "errorMiddleware"), 500, "QueryFailedError")}

\* RegFind without the existing-email branch.
RegFindNoCheck(r) ==
    /\ req[r].pc = "regFind"
    /\ LET q == req[r] IN
       req' = [req EXCEPT ![r] =
                 IF env.HASH_SALT = 0
                 THEN Respond(q, 500, MsgNoSalt)
                 ELSE [Stage(q, "findOne") EXCEPT
                          !.found = FirstOf(FindOne(store, q.body.email)),
                          !.pc = "regSave"]]
    /\ UNCHANGED <<store, nextId, cache, hits, now, ticks, env, wallet, regAt, admitted>>

\* RegFind looking the email up before it checks HASH_SALT.
RegFindBeforeSaltCheck(r) ==
    /\ req[r].pc = "regFind"
    /\ LET q == req[r]
           user == FirstOf(FindOne(store, q.body.email))
           q1 == [Stage(q, "findOne") EXCEPT !.found = user]
       IN req' = [req EXCEPT ![r] =
                    IF user # <<>>
                    THEN Respond(q1, 400, MsgEmailUsed)
                    ELSE IF env.HASH_SALT = 0
                    THEN Respond(q1, 500, MsgNoSalt)
                    ELSE [q1 EXCEPT !.pc = "regSave"]]
    /\ UNCHANGED <<store, nextId, cache, hits, now, ticks, env, wallet, regAt, admitted>>

\* The HASH_SALT check, then findOne({where: {email}}) and the branch on it.
RegFind(r) ==
    /\ req[r].pc = "regFind"
    /\ LET q == req[r] IN
       req' = [req EXCEPT ![r] =
                 IF env.HASH_SALT = 0
                 THEN Respond(q, 500, MsgNoSalt)
                 ELSE LET user == FirstOf(FindOne(store, q.body.email))
                          q1 == [Stage(q, "findOne") EXCEPT !.found = user]
                      IN IF user # <<>>
                         THEN Respond(q1, 400, MsgEmailUsed)
                         ELSE [q1 EXCEPT !.pc = "regSave"]]
    /\ UNCHANGED <<store, nextId, cache, hits, now, ticks, env, wallet, regAt, admitted>>

\* NewUser without the default role.
NewUserNoDefault(body, hashed, id) ==
    [id |-> id, name |-> body.name, email |-> body.email, password |-> hashed,
     role |-> body.role]

\* userRepository.create({..., role: role || UserRole.USER}): a role that is
\* undefined, null or '' is falsy.
NewUser(body, hashed, id) ==
    [id |-> id, name |-> body.name, email |-> body.email, password |-> hashed,
     role |-> IF body.role \in {NoVal, Null, ""} THEN "user" ELSE body.role]

\* RegSave on a table without the unique index on email.
RegSaveNoUniqueIndex(r) ==
    /\ req[r].pc = "regSave"
    /\ \E salt \in Salts :
         LET q == Stage(req[r], "save")
             hashed == BcryptHash(q.body.password, env.HASH_SALT, salt)
             row == NewUser(q.body, hashed, nextId)
         IN /\ nextId' = nextId + 1
            /\ store' = Append(store, row)
            /\ req' = [req EXCEPT ![r] = [q EXCEPT !.pc = "regDel"]]
    /\ UNCHANGED <<cache, hits, now, ticks, env, wallet, regAt, admitted>>

\* bcrypt.hash, create, and the INSERT of save(): the unique index on email
\* rejects a second row with the same email.
RegSave(r) ==
    /\ req[r].pc = "regSave"
    /\ \E salt \in Salts :
         LET q == Stage(req[r], "save")
             hashed == BcryptHash(q.body.password, env.HASH_SALT, salt)
             row == NewUser(q.body, hashed, nextId)
         IN /\ nextId' = nextId + 1
            /\ IF q.body.email \in Emails(store)
               THEN /\ store' = store
                    /\ \E q1 \in Rejected(q) : req' = [req EXCEPT ![r] = q1]
               ELSE /\ store' = Append(store, row)
                    /\ req' = [req EXCEPT ![r] = [q EXCEPT !.pc = "regDel"]]
    /\ UNCHANGED <<cache, hits, now, ticks, env, wallet, regAt, admitted>>

\* RegDel answering 201 without deleting the key.
RegDelSkipped(r) ==
    /\ req[r].pc = "regDel"
    /\ req' = [req EXCEPT ![r] = [@ EXCEPT !.pc = "regRespond"]]
    /\ UNCHANGED <<store, nextId, cache, hits, now, ticks, env, wallet, regAt, admitted>>

\* await redis.del('users').
RegDel(r) ==
    /\ req[r].pc = "regDel"
    /\ cache' = <<>>
    /\ req' = [req EXCEPT ![r] = [Stage(@, "del") EXCEPT !.pc = "regRespond"]]
    /\ UNCHANGED <<store, nextId, hits, now, ticks, env, wallet, regAt, admitted>>

\* res.status(201).json(...).
RegRespond(r) ==
    /\ req[r].pc = "regRespond"
    /\ req' = [req EXCEPT ![r] = Respond(@, 201, MsgRegistered)]
    /\ regAt' = [regAt EXCEPT ![req[r].body.email] = IF @ < 0 THEN now ELSE @]
    /\ UNCHANGED <<store, nextId, cache, hits, now, ticks, env, wallet, admitted>>

(***************************************************************************)
(* POST /login.                                                            *)
(***************************************************************************)
\* LoginFind answering 404 where the email is unknown.
LoginFindAnswers404(r) ==
    /\ req[r].pc = "loginFind"
    /\ LET user == FirstOf(FindOne(store, req[r].body.email))
           q == [Stage(req[r], "findOne") EXCEPT !.found = user]
       IN req' = [req EXCEPT ![r] =
                    IF user = <<>> THEN Respond(q, 404, MsgNoUser)
                    ELSE [q EXCEPT !.pc = "loginCheck"]]
    /\ UNCHANGED <<store, nextId, cache, hits, now, ticks, env, wallet, regAt, admitted>>

\* const user = await userRepository.findOne({where: {email}}); no user: 400.
LoginFind(r) ==
    /\ req[r].pc = "loginFind"
    /\ LET user == FirstOf(FindOne(store, req[r].body.email))
           q == [Stage(req[r], "findOne") EXCEPT !.found = user]
       IN req' = [req EXCEPT ![r] =
                    IF user = <<>> THEN Respond(q, 400, MsgNoUser)
                    ELSE [q EXCEPT !.pc = "loginCheck"]]
    /\ UNCHANGED <<store, nextId, cache, hits, now, ticks, env, wallet, regAt, admitted>>

\* bcrypt.compare, then jwt.sign({userId, role}, JWT_SECRET, {expiresIn: '1h'}).
LoginCheck(r) ==
    /\ req[r].pc = "loginCheck"
    /\ LET q == Stage(req[r], "compare")
           user == q.found[1]
           tok == JwtSign([userId |-> user.id, role |-> user.role], Secret, now)
       IN IF ~BcryptCompare(q.body.password, user.password)
          THEN /\ req' = [req EXCEPT ![r] = Respond(q, 400, MsgBadCreds)]
               /\ wallet' = wallet
          ELSE /\ req' = [req EXCEPT ![r] =
                            [Respond(Stage(q, "sign"), 200, NoVal) EXCEPT !.token = <<tok>>]]
               /\ wallet' = <<tok>>
    /\ UNCHANGED <<store, nextId, cache, hits, now, ticks, env, regAt, admitted>>

(***************************************************************************)
(* GET /users.                                                             *)
(***************************************************************************)
\* UsersGet renewing the key's expiry on a hit.
UsersGetRenewsExpiry(r) ==
    /\ req[r].pc = "usersGet"
    /\ LET q == Stage(req[r], "get") IN
       /\ req' = [req EXCEPT ![r] =
                    IF cache # <<>>
                    THEN [Respond(q, 200, NoVal) EXCEPT
                             !.list = JsonParse(cache[1].val), !.hit = TRUE]
                    ELSE [q EXCEPT !.pc = "usersFind"]]
       /\ cache' = IF cache # <<>> THEN <<[cache[1] EXCEPT !.exp = now + CacheTTL]>>
                   ELSE cache
    /\ UNCHANGED <<store, nextId, hits, now, ticks, env, wallet, regAt, admitted>>

\* const cachedUsers = await redis.get('users'); a hit returns the parsed value.
UsersGet(r) ==
    /\ req[r].pc = "usersGet"
    /\ LET q == Stage(req[r], "get") IN
       req' = [req EXCEPT ![r] =
                 IF cache # <<>>
                 THEN [Respond(q, 200, NoVal) EXCEPT
                          !.list = JsonParse(cache[1].val), !.hit = TRUE]
                 ELSE [q EXCEPT !.pc = "usersFind"]]
    /\ UNCHANGED <<store, nextId, cache, hits, now, ticks, env, wallet, regAt, admitted>>

UsersFind(r) ==
    /\ req[r].pc = "usersFind"
    /\ req' = [req EXCEPT ![r] =
                 [Stage(@, "find") EXCEPT !.users = store, !.pc = "usersSet"]]
    /\ UNCHANGED <<store, nextId, cache, hits, now, ticks, env, wallet, regAt, admitted>>

\* UsersSet caching the users without their password hashes.
UsersSetRedacted(r) ==
    /\ req[r].pc = "usersSet"
    /\ LET redacted == [i \in 1..Len(req[r].users) |->
                          [req[r].users[i] EXCEPT !.password.alg = "redacted",
                                                  !.password.digest = <<>>]]
       IN cache' = <<[val |-> JsonStringify(redacted), exp |-> now + CacheTTL]>>
    /\ req' = [req EXCEPT ![r] =
                 [Respond(Stage(@, "set"), 200, NoVal) EXCEPT !.list = req[r].users]]
    /\ UNCHANGED <<store, nextId, hits, now, ticks, env, wallet, regAt, admitted>>

\* UsersSet with an expiry of 60 * 50 seconds.
UsersSetLongExpiry(r) ==
    /\ req[r].pc = "usersSet"
    /\ cache' = <<[val |-> JsonStringify(req[r].users), exp |-> now + 10 * CacheTTL]>>
    /\ req' = [req EXCEPT ![r] =
                 [Respond(Stage(@, "set"), 200, NoVal) EXCEPT !.list = req[r].users]]
    /\ UNCHANGED <<store, nextId, hits, now, ticks, env, wallet, regAt, admitted>>

\* redis.set('users', JSON.stringify(users), 'EX', 60 * 5), then res.json(users).
UsersSet(r) ==
    /\ req[r].pc = "usersSet"
    /\ cache' = <<[val |-> JsonStringify(req[r].users), exp |-> now + CacheTTL]>>
    /\ req' = [req EXCEPT ![r] =
                 [Respond(Stage(@, "set"), 200, NoVal) EXCEPT !.list = req[r].users]]
    /\ UNCHANGED <<store, nextId, hits, now, ticks, env, wallet, regAt, admitted>>

(***************************************************************************)
(* GET /admin: checkRole([UserRole.ADMIN]), then the handler.              *)
(***************************************************************************)
\* CheckRole answering 401 where the role is not among the required ones.
CheckRoleDenies401(q, roles, t) ==
    IF q.auth = <<>>
    THEN Respond(q, 401, MsgNoHeader)
    ELSE LET decoded == JwtVerify(HeaderToken(q.auth), Secret, t) IN
         IF decoded = <<>>
         THEN Respond(Stage(q, "logger.error"), 401, MsgBadToken)
         ELSE IF decoded[1].role \notin roles
         THEN Respond(q, 401, MsgDenied)
         ELSE [q EXCEPT !.found = decoded, !.pc = "next"]

\* CheckRole telling an expired token from any other failing token.
CheckRoleTellsExpired(q, roles, t) ==
    IF q.auth = <<>>
    THEN Respond(q, 401, MsgNoHeader)
    ELSE LET decoded == JwtVerify(HeaderToken(q.auth), Secret, t) IN
         IF decoded = <<>>
         THEN Respond(Stage(q, "logger.error"), 401,
                      IF JwtVerifyIgnoreExpiration(HeaderToken(q.auth), Secret, t) # <<>>
                      THEN "jwt expired" ELSE MsgBadToken)
         ELSE IF decoded[1].role \notin roles
         THEN Respond(q, 403, MsgDenied)
         ELSE [q EXCEPT !.found = decoded, !.pc = "next"]

CheckRole(q, roles, t) ==
    IF q.auth = <<>>
    THEN Respond(q, 401, MsgNoHeader)
    ELSE LET decoded == JwtVerify(HeaderToken(q.auth), Secret, t) IN
         IF decoded = <<>>
         THEN Respond(Stage(q, "logger.error"), 401, MsgBadToken)
         ELSE IF decoded[1].role \notin roles
         THEN Respond(q, 403, MsgDenied)
         ELSE [q EXCEPT !.found = decoded, !.pc = "next"]

Admin(r) ==
    /\ req[r].pc = "admin"
    /\ LET q == CheckRole(Stage(req[r], "checkRole"), {"admin"}, now) IN
       req' = [req EXCEPT ![r] =
                 IF q.pc = "next" THEN Respond(Stage(q, "handler"), 200, MsgAdmin)
                 ELSE q]
    /\ UNCHANGED <<store, nextId, cache, hits, now, ticks, env, wallet, regAt, admitted>>

(***************************************************************************)
(* GET /protected: the handler verifies the token itself.                  *)
(***************************************************************************)
Protected(r) ==
    /\ req[r].pc = "protected"
    /\ LET q == Stage(req[r], "handler")
           decoded == JwtVerify(HeaderToken(q.auth), Secret, now)
       IN req' = [req EXCEPT ![r] =
                    IF q.auth = <<>>
                    THEN Respond(Stage(q, "logger.warn"), 401, MsgNoHeader)
                    ELSE IF decoded = <<>>
                    THEN Respond(Stage(q, "logger.error"), 401, MsgBadToken)
                    ELSE [Respond(q, 200, MsgProtected) EXCEPT !.decoded = decoded]]
    /\ UNCHANGED <<store, nextId, cache, hits, now, ticks, env, wallet, regAt, admitted>>

(***************************************************************************)
(* A store or cache call of a handler rejects (connection lost, query      *)
(* error): the awaiting async handler throws at that await.                *)
(***************************************************************************)
AwaitsStore(q) ==
    \/ q.pc \in {"regSave", "regDel", "loginFind", "usersGet", "usersFind", "usersSet"}
    \/ q.pc = "regFind" /\ env.HASH_SALT # 0

StoreFails(r) ==
    /\ AwaitsStore(req[r])
    /\ \E q1 \in Rejected(Stage(req[r], "throw")) : req' = [req EXCEPT ![r] = q1]
    /\ UNCHANGED <<store, nextId, cache, hits, now, ticks, env, wallet, regAt, admitted>>

(***************************************************************************)
(* GET / and GET /metrics.                                                 *)
(***************************************************************************)
Root(r) ==
    /\ req[r].pc = "root"
    /\ req' = [req EXCEPT ![r] = Respond(Stage(@, "handler"), 200, MsgHello)]
    /\ UNCHANGED <<store, nextId, cache, hits, now, ticks, env, wallet, regAt, admitted>>

Metrics(r) ==
    /\ req[r].pc = "metrics"
    /\ req' = [req EXCEPT ![r] = Respond(Stage(@, "handler"), 200, MsgMetrics)]
    /\ UNCHANGED <<store, nextId, cache, hits, now, ticks, env, wallet, regAt, admitted>>

(***************************************************************************)
(* A server process restarts: its requests in flight are dropped, and what *)
(* lives in Postgres and Redis stays.                                      *)
(***************************************************************************)
\* Restart with the counters in the process's memory (no RedisStore).
RestartMemoryStore(p) ==
    /\ \E r \in Reqs : Proc(r) = p /\ req[r].pc # "idle"
    /\ req' = [r \in Reqs |-> IF Proc(r) = p THEN IdleReq ELSE req[r]]
    /\ hits' = [k \in Clients |-> NoHits]
    /\ UNCHANGED <<store, nextId, cache, now, ticks, env, wallet, regAt, admitted>>

Restart(p) ==
    /\ \E r \in Reqs : Proc(r) = p /\ req[r].pc # "idle"
    /\ req' = [r \in Reqs |-> IF Proc(r) = p THEN IdleReq ELSE req[r]]
    /\ UNCHANGED <<store, nextId, cache, hits, now, ticks, env, wallet, regAt, admitted>>

(***************************************************************************)
(* Time passes; Redis drops the keys whose expiry has come.                *)
(***************************************************************************)
Tick(d) ==
    /\ ticks < MaxTicks
    /\ now' = now + d
    /\ ticks' = ticks + 1
    /\ cache' = ExpireCache(cache, now + d)
    /\ hits' = ExpireHits(hits, now + d)
    /\ admitted' = [k \in DOMAIN admitted |-> Elapse(admitted[k], now + d)]
    /\ UNCHANGED <<store, nextId, env, req, wallet, regAt>>

(***************************************************************************)
(* What clients send.                                                      *)
(***************************************************************************)
Ann == [name |-> "Ann", email |-> "a@x.io", password |-> "hunter22", role |-> NoVal]
Bob == [name |-> "Bob", email |-> "b@x.io", password |-> "swordfish", role |-> "admin"]
RegisterBodies == {Ann, Bob, [Ann EXCEPT !.name = "A"]}
LoginBodies ==
    {[NoBody EXCEPT !.email = b.email, !.password = b.password] : b \in {Ann, Bob}}
      \cup {[NoBody EXCEPT !.email = "a@x.io", !.password = "wrong!"]}

\* Payloads that break the schema: an empty object, an unknown role, a short
\* name together with a short password, a string that is no email address.
BadRegisterBodies ==
    {NoBody, [Ann EXCEPT !.role = "root"],
     [Ann EXCEPT !.name = "A", !.password = "abc"],
     [Ann EXCEPT !.email = "not-an-email"]}
\* Payloads with every kind of role: a valid one, none, null, the empty
\* string, an unknown one.
RoleBodies ==
    {Bob, [Bob EXCEPT !.role = NoVal], [Bob EXCEPT !.role = Null],
     [Bob EXCEPT !.role = ""], [Bob EXCEPT !.role = "root"]}
BadLoginBodies == {NoBody, [NoBody EXCEPT !.email = "a@x.io"]}

Garbage == [fmt |-> "garbage", userId |-> 0, role |-> NoVal, iat |-> 0, exp |-> 0, sig |-> NoVal]
Tampered(tok) == [tok EXCEPT !.role = "admin", !.sig = "forged"]
Held == {wallet[i] : i \in 1..Len(wallet)}
AuthHeaders ==
    {<<>>, <<"Bearer">>, <<"Bearer", Garbage>>}
      \cup {<<"Bearer", t>> : t \in Held}
      \cup {<<"Bearer", Tampered(t)>> : t \in Held}

(***************************************************************************)
(* The system after start-up.  Postgres and Redis keep their data in the   *)
(* volumes postgres_data and redis_data, so the process may start on a     *)
(* table that earlier registrations filled.                                *)
(***************************************************************************)
AnnRow == NewUser(Ann, BcryptHash(Ann.password, 10, "s1"), 1)
BobRow == NewUser(Bob, BcryptHash(Bob.password, 10, "s1"), 2)

InitWith(table, salts) ==
    /\ store = table
    /\ nextId = Len(table) + 1
    /\ cache = <<>>
    /\ hits = [k \in Clients |-> NoHits]
    /\ now = 0
    /\ ticks = 0
    /\ env \in {[HASH_SALT |-> n] : n \in salts}
    /\ req = [r \in Reqs |-> IdleReq]
    /\ wallet = <<>>
    /\ regAt = [e \in WellFormedEmails |-> IF e \in Emails(table) THEN 0 ELSE -1]
    /\ admitted = [k \in Clients |-> NoneAdmitted]

\* Registration: valid and invalid payloads, HASH_SALT set or unset.
InitReg == \E table \in {<<>>, <<AnnRow>>} : InitWith(table, {0, 10})
NextReg ==
    \/ \E r \in Reqs, c \in Clients, b \in RegisterBodies : Arrive(r, "/register", c, b, <<>>)
    \/ \E r \in Reqs : RateLimiter(r)
    \/ \E r \in Reqs : ValidationMiddleware(r)
    \/ \E r \in Reqs : RegFind(r)
    \/ \E r \in Reqs : RegSave(r)
    \/ \E r \in Reqs : RegDel(r)
    \/ \E r \in Reqs : RegRespond(r)
SpecReg == InitReg /\ [][NextReg]_vars

\* Registration against the cached user list, over the cache's lifetime.
InitCache == InitWith(<<>>, {10})
NextCache ==
    \/ \E r \in Reqs, c \in Clients, b \in {Ann} : Arrive(r, "/register", c, b, <<>>)
    \/ \E r \in Reqs, c \in Clients : Arrive(r, "/users", c, NoBody, <<>>)
    \/ \E r \in Reqs : RateLimiter(r)
    \/ \E r \in Reqs : ValidationMiddleware(r)
    \/ \E r \in Reqs : RegFind(r)
    \/ \E r \in Reqs : RegSave(r)
    \/ \E r \in Reqs : RegDel(r)
    \/ \E r \in Reqs : RegRespond(r)
    \/ \E r \in Reqs : UsersGet(r)
    \/ \E r \in Reqs : UsersFind(r)
    \/ \E r \in Reqs : UsersSet(r)
    \/ \E d \in {2, 299} : Tick(d)
SpecCache == InitCache /\ [][NextCache]_vars

\* Login (on connection 1) and the admin route (on connection 2), over a
\* token's lifetime.
InitAuth == InitWith(<<AnnRow, BobRow>>, {10})
NextAuth ==
    \/ \E c \in Clients, b \in LoginBodies : Arrive(1, "/login", c, b, <<>>)
    \/ \E c \in Clients, a \in AuthHeaders : Arrive(2, "/admin", c, NoBody, a)
    \/ \E r \in Reqs : RateLimiter(r)
    \/ \E r \in Reqs : ValidationMiddleware(r)
    \/ \E r \in Reqs : LoginFind(r)
    \/ \E r \in Reqs : LoginCheck(r)
    \/ \E r \in Reqs : Admin(r)
    \/ \E d \in {1, 3599} : Tick(d)
SpecAuth == InitAuth /\ [][NextAuth]_vars

\* The two validated routes, with payloads that keep and that break the schema.
InitValid == InitWith(<<AnnRow>>, {10})
NextValid ==
    \/ \E r \in Reqs, c \in Clients, b \in RegisterBodies \cup BadRegisterBodies :
         Arrive(r, "/register", c, b, <<>>)
    \/ \E r \in Reqs, c \in Clients, b \in LoginBodies \cup BadLoginBodies :
         Arrive(r, "/login", c, b, <<>>)
    \/ \E r \in Reqs : RateLimiter(r)
    \/ \E r \in Reqs : ValidationMiddleware(r)
    \/ \E r \in Reqs : RegFind(r)
    \/ \E r \in Reqs : RegSave(r)
    \/ \E r \in Reqs : RegDel(r)
    \/ \E r \in Reqs : RegRespond(r)
    \/ \E r \in Reqs : LoginFind(r)
    \/ \E r \in Reqs : LoginCheck(r)
SpecValid == InitValid /\ [][NextValid]_vars

\* One connection whose store and cache calls may fail.  The event loop runs
\* every callback that is ready, so a request that can take a step takes one.
InitFail == InitWith(<<AnnRow>>, {10})
PipelineStep(r) ==
    \/ RateLimiter(r)
    \/ ValidationMiddleware(r)
    \/ RegFind(r)
    \/ RegSave(r)
    \/ RegDel(r)
    \/ RegRespond(r)
    \/ LoginFind(r)
    \/ LoginCheck(r)
    \/ UsersGet(r)
    \/ UsersFind(r)
    \/ UsersSet(r)
    \/ StoreFails(r)
NextFail ==
    \/ \E c \in Clients : Arrive(1, "/register", c, Bob, <<>>)
    \/ \E c \in Clients, b \in LoginBodies : Arrive(1, "/login", c, b, <<>>)
    \/ \E c \in Clients : Arrive(1, "/users", c, NoBody, <<>>)
    \/ \E r \in Reqs : PipelineStep(r)
SpecFail == InitFail /\ [][NextFail]_vars
SpecFailFair == SpecFail /\ \A r \in Reqs : WF_vars(PipelineStep(r))

\* Two processes that share Redis and restart, over the limiter's window.
InitScale == InitWith(<<AnnRow>>, {10})
NextScale ==
    \/ \E r \in Reqs, c \in Clients : Arrive(r, "/users", c, NoBody, <<>>)
    \/ \E r \in Reqs : RateLimiter(r)
    \/ \E r \in Reqs : UsersGet(r)
    \/ \E r \in Reqs : UsersFind(r)
    \/ \E r \in Reqs : UsersSet(r)
    \/ \E p \in Reqs : Restart(p)
    \/ \E d \in {1, 59} : Tick(d)
SpecScale == InitScale /\ [][NextScale]_vars

\* Registrations that differ in the role they ask for.
InitRole == InitWith(<<AnnRow>>, {10})
NextRole ==
    \/ \E r \in Reqs, c \in Clients, b \in RoleBodies : Arrive(r, "/register", c, b, <<>>)
    \/ \E r \in Reqs : RateLimiter(r)
    \/ \E r \in Reqs : ValidationMiddleware(r)
    \/ \E r \in Reqs : RegFind(r)
    \/ \E r \in Reqs : RegSave(r)
    \/ \E r \in Reqs : RegDel(r)
    \/ \E r \in Reqs : RegRespond(r)
SpecRole == InitRole /\ [][NextRole]_vars

\* Login (on connection 1) and registration (on connection 2) with payloads
\* that keep and that break the schema, HASH_SALT set or unset.
InitOrder == InitWith(<<AnnRow>>, {0, 10})
NextOrder ==
    \/ \E c \in Clients, b \in LoginBodies \cup BadLoginBodies : Arrive(1, "/login", c, b, <<>>)
    \/ \E c \in Clients, b \in {Bob} \cup BadRegisterBodies : Arrive(2, "/register", c, b, <<>>)
    \/ \E r \in Reqs : RateLimiter(r)
    \/ \E r \in Reqs : ValidationMiddleware(r)
    \/ \E r \in Reqs : RegFind(r)
    \/ \E r \in Reqs : RegSave(r)
    \/ \E r \in Reqs : RegDel(r)
    \/ \E r \in Reqs : RegRespond(r)
    \/ \E r \in Reqs : LoginFind(r)
    \/ \E r \in Reqs : LoginCheck(r)
SpecOrder == InitOrder /\ [][NextOrder]_vars

\* Every route of the app: the GET routes on connection 1, login and
\* registration on connection 2, over the limiter's window.
GetRoutes == {"/users", "/admin", "/protected", "/metrics", "/"}
InitBudget == InitWith(<<AnnRow>>, {10})
NextBudget ==
    \/ \E c \in Clients, route \in GetRoutes : Arrive(1, route, c, NoBody, <<>>)
    \/ \E c \in Clients :
         Arrive(2, "/login", c, [NoBody EXCEPT !.email = Ann.email, !.password = Ann.password], <<>>)
    \/ \E c \in Clients : Arrive(2, "/register", c, Bob, <<>>)
    \/ \E r \in Reqs : RateLimiter(r)
    \/ \E r \in Reqs : ValidationMiddleware(r)
    \/ \E r \in Reqs : RegFind(r)
    \/ \E r \in Reqs : RegSave(r)
    \/ \E r \in Reqs : RegDel(r)
    \/ \E r \in Reqs : RegRespond(r)
    \/ \E r \in Reqs : LoginFind(r)
    \/ \E r \in Reqs : LoginCheck(r)
    \/ \E r \in Reqs : UsersGet(r)
    \/ \E r \in Reqs : UsersFind(r)
    \/ \E r \in Reqs : UsersSet(r)
    \/ \E r \in Reqs : Admin(r)
    \/ \E r \in Reqs : Protected(r)
    \/ \E r \in Reqs : Root(r)
    \/ \E r \in Reqs : Metrics(r)
    \/ \E d \in {30} : Tick(d)
SpecBudget == InitBudget /\ [][NextBudget]_vars

\* The two token-checking routes on both connections, with one user logging in.
InitToken == InitWith(<<AnnRow, BobRow>>, {10})
NextToken ==
    \/ \E c \in Clients : Arrive(1, "/login", c, [NoBody EXCEPT !.email = Bob.email, !.password = Bob.password], <<>>)
    \/ \E r \in Reqs, c \in Clients, a \in AuthHeaders : Arrive(r, "/admin", c, NoBody, a)
    \/ \E r \in Reqs, c \in Clients, a \in AuthHeaders : Arrive(r, "/protected", c, NoBody, a)
    \/ \E r \in Reqs : RateLimiter(r)
    \/ \E r \in Reqs : ValidationMiddleware(r)
    \/ \E r \in Reqs : LoginFind(r)
    \/ \E r \in Reqs : LoginCheck(r)
    \/ \E r \in Reqs : Admin(r)
    \/ \E r \in Reqs : Protected(r)
    \/ \E d \in {1, 3599} : Tick(d)
SpecToken == InitToken /\ [][NextToken]_vars

\* The routes of the router with their middleware: registration and login
\* (on connection 1) with payloads that keep and that break the schema,
\* GET /admin and GET /users (on connection 2).
InitOnce == InitWith(<<AnnRow>>, {10})
NextOnce ==
    \/ \E c \in Clients : Arrive(1, "/register", c, Bob, <<>>)
    \/ \E c \in Clients : Arrive(1, "/register", c, NoBody, <<>>)
    \/ \E c \in Clients, u \in {Ann, Bob} :
         Arrive(1, "/login", c, [NoBody EXCEPT !.email = u.email, !.password = u.password], <<>>)
    \/ \E c \in Clients : Arrive(1, "/login", c, NoBody, <<>>)
    \/ \E c \in Clients, a \in AuthHeaders : Arrive(2, "/admin", c, NoBody, a)
    \/ \E c \in Clients : Arrive(2, "/users", c, NoBody, <<>>)
    \/ \E r \in Reqs : RateLimiter(r)
    \/ \E r \in Reqs : ValidationMiddleware(r)
    \/ \E r \in Reqs : RegFind(r)
    \/ \E r \in Reqs : RegSave(r)
    \/ \E r \in Reqs : RegDel(r)
    \/ \E r \in Reqs : RegRespond(r)
    \/ \E r \in Reqs : LoginFind(r)
    \/ \E r \in Reqs : LoginCheck(r)
    \/ \E r \in Reqs : UsersGet(r)
    \/ \E r \in Reqs : UsersFind(r)
    \/ \E r \in Reqs : UsersSet(r)
    \/ \E r \in Reqs : Admin(r)
SpecOnce == InitOnce /\ [][NextOnce]_vars

\* Every route behind the rate limiter, over the limiter's window.
InitRate == InitWith(<<AnnRow>>, {10})
NextRate ==
    \/ \E r \in Reqs, c \in Clients : Arrive(r, "/register", c, Bob, <<>>)
    \/ \E r \in Reqs, c \in Clients : Arrive(r, "/users", c, NoBody, <<>>)
    \/ \E r \in Reqs : RateLimiter(r)
    \/ \E r \in Reqs : ValidationMiddleware(r)
    \/ \E r \in Reqs : RegFind(r)
    \/ \E r \in Reqs : RegSave(r)
    \/ \E r \in Reqs : RegDel(r)
    \/ \E r \in Reqs : RegRespond(r)
    \/ \E r \in Reqs : UsersGet(r)
    \/ \E r \in Reqs : UsersFind(r)
    \/ \E r \in Reqs : UsersSet(r)
    \/ \E d \in {1, 59} : Tick(d)
SpecRate == InitRate /\ [][NextRate]_vars

(***************************************************************************)
(* The claims.                                                             *)
(***************************************************************************)
Done(r, route) == req[r].pc = "done" /\ req[r].route = route

\* C1: a GET /users answered from the cache more than CacheTTL seconds after
\* a registration responded 201 lists that registered user.
C1_HitListsUsersOlderThanTTL ==
    [][\A r \in Reqs :
         (req[r].pc = "usersGet" /\ req'[r].pc = "done" /\ req'[r].hit)
           => \A e \in Registered201 :
                now > regAt[e] + CacheTTL => e \in Emails(req'[r].list)]_vars

\* C2: a GET /users that arrived after a registration responded 201 returns
\* a list that holds the registered user exactly once.
C2_ListHoldsRegisteredOnce ==
    \A r \in Reqs :
      (Done(r, "/users") /\ req[r].status = 200)
        => \A e \in req[r].known : CountEmail(req[r].list, e) = 1

\* C3 as stated: every POST /register whose email is in the store when it
\* arrives is answered 400 'This email address have been used' and saves
\* nothing.
C3_TakenEmailAlways400 ==
    \A r \in Reqs :
      (Done(r, "/register") /\ req[r].body.email \in req[r].stored)
        => /\ req[r].status = 400
           /\ req[r].msg = MsgEmailUsed
           /\ ~Has(req[r], "save")

\* C3 amended: a POST /register whose email is in the store when it arrives
\* never saves a row; when the rate limiter admits it, its payload is valid
\* and HASH_SALT is set, it is answered 400 'This email address have been
\* used'.
C3_TakenEmailRejected ==
    \A r \in Reqs :
      (req[r].route = "/register" /\ req[r].body.email \in req[r].stored)
        => /\ ~Has(req[r], "save")
           /\ req[r].pc \notin {"regSave", "regDel", "regRespond", "unhandled"}
           /\ (/\ req[r].pc = "done"
               /\ req[r].status # 429
               /\ RegisterUserDTO(req[r].body) = <<>>
               /\ env.HASH_SALT # 0)
                => (req[r].status = 400 /\ req[r].msg = MsgEmailUsed)

C3_Witness ==
    \E r \in Reqs :
      /\ Done(r, "/register")
      /\ req[r].body.email \in req[r].stored
      /\ req[r].status = 400
      /\ req[r].msg = MsgEmailUsed
      /\ Has(req[r], "findOne")

SaveFailed(q) == Has(q, "save") /\ (Has(q, "unhandledRejection") \/ Has(q, "errorMiddleware"))

\* C4: a save that the unique index on email rejects is answered with the
\* 400 duplicate-email response.
C4_UniqueViolationIs400 ==
    \A r \in Reqs :
      (req[r].route = "/register" /\ SaveFailed(req[r]))
        => /\ req[r].pc = "done"
           /\ req[r].status = 400
           /\ req[r].msg = MsgEmailUsed

Pos(q, name) == CHOOSE i \in 1..Len(q.trace) : q.trace[i] = name

\* C5: in one POST /register the delete of 'users' comes after the save that
\* stored the row, every request whose save stored a row goes on to the
\* delete, and 201 is sent only after the delete.
C5_InvalidateAfterWrite ==
    \A r \in Reqs :
      LET q == req[r] IN
      q.route = "/register" =>
        /\ (Has(q, "del") \/ q.pc = "regDel")
             => (Has(q, "save") /\ ~SaveFailed(q) /\ q.body.email \in Emails(store))
        /\ Has(q, "del") => Pos(q, "save") < Pos(q, "del")
        /\ (Has(q, "save") /\ ~SaveFailed(q))
             => (q.pc = "regDel" \/ (Has(q, "del") /\ q.pc \in {"regRespond", "done"}))
        /\ q.status = 201
             => (Has(q, "del") /\ Pos(q, "del") < Pos(q, "respond"))
        /\ q.pc = "regRespond" => Has(q, "del")

C5_Witness ==
    \E r \in Reqs :
      /\ Done(r, "/register")
      /\ req[r].status = 201
      /\ req[r].trace = <<"requestLogger", "rateLimiter", "validate", "findOne",
                          "save", "del", "respond">>
      /\ \E o \in Reqs : Done(o, "/users") /\ req[o].status = 200 /\ ~req[o].hit

Row(email) == CHOOSE u \in {store[i] : i \in 1..Len(store)} : u.email = email

RightCredentials(body) ==
    \E i \in 1..Len(store) :
      store[i].email = body.email /\ BcryptCompare(body.password, store[i].password)

TokenDecodesTo(token, user) ==
    /\ token # <<>>
    /\ LET v == JwtVerify(token, Secret, token[1].iat) IN
         v # <<>> /\ v[1].userId = user.id /\ v[1].role = user.role

\* C6 as stated: every POST /login with a stored user's email and password
\* is answered 200 with a token that verifies to that user's id and role.
C6_RightCredentialsAlways200 ==
    \A r \in Reqs :
      (Done(r, "/login") /\ RightCredentials(req[r].body))
        => /\ req[r].status = 200
           /\ TokenDecodesTo(req[r].token, Row(req[r].body.email))

\* C6 amended: every POST /login that the rate limiter admits, with a stored
\* user's email and password, is answered 200 with a token that verifies to
\* that user's id and role.
C6_AdmittedLoginGetsToken ==
    \A r \in Reqs :
      (Done(r, "/login") /\ req[r].status # 429 /\ RightCredentials(req[r].body))
        => /\ req[r].status = 200
           /\ TokenDecodesTo(req[r].token, Row(req[r].body.email))

C6_Witness ==
    \E r \in Reqs :
      /\ Done(r, "/login")
      /\ req[r].status = 200
      /\ req[r].body.email = Bob.email
      /\ req[r].token # <<>>
      /\ req[r].token[1].role = "admin"

\* C7: the token of a login verifies to the user's id and role at every time
\* before its issuance plus TokenLife, and fails to verify at every time after.
C7_TokenRoundTrip ==
    \A r \in Reqs :
      (Done(r, "/login") /\ req[r].status = 200)
        => LET tok == req[r].token[1]
               user == Row(req[r].body.email)
               v == JwtVerify(req[r].token, Secret, now)
           IN /\ tok.iat <= now
              /\ now < tok.iat + TokenLife
                   => (v # <<>> /\ v[1].userId = user.id /\ v[1].role = user.role)
              /\ now > tok.iat + TokenLife => v = <<>>

C7_Witness ==
    /\ \E r \in Reqs :
         /\ Done(r, "/login")
         /\ req[r].status = 200
         /\ now > req[r].token[1].iat + TokenLife
    /\ \E r \in Reqs :
         /\ Done(r, "/admin")
         /\ req[r].status = 401
         /\ Len(req[r].auth) = 2
         /\ req[r].auth[2].fmt = "jwt"
         /\ req[r].auth[2].sig = Secret

AdminOutcome(auth, t, status) ==
    LET v == JwtVerify(HeaderToken(auth), Secret, t) IN
    /\ status = 200 <=> (v # <<>> /\ v[1].role = "admin")
    /\ (auth = <<>> \/ v = <<>>) => status = 401
    /\ (v # <<>> /\ v[1].role # "admin") => status = 403

\* C10 as stated: every GET /admin is answered 200 exactly when its token
\* verifies with role ADMIN, 401 when the header is missing or the token
\* fails to verify, 403 when the token verifies with another role.
C10_AdminAlwaysByToken ==
    [][\A r \in Reqs :
         (req[r].route = "/admin" /\ req[r].pc # "done" /\ req'[r].pc = "done")
           => AdminOutcome(req[r].auth, now, req'[r].status)]_vars

\* C10 amended: every GET /admin that the rate limiter admits is answered
\* 200 exactly when its token verifies with role ADMIN, 401 when the header
\* is missing or the token fails to verify, 403 when the token verifies with
\* another role.
C10_AdmittedAdminByToken ==
    [][\A r \in Reqs :
         (req[r].pc = "admin" /\ req'[r].pc = "done")
           => AdminOutcome(req[r].auth, now, req'[r].status)]_vars

C10_Witness ==
    \E r \in Reqs :
      /\ Done(r, "/admin")
      /\ req[r].status = 200
      /\ req[r].auth = <<"Bearer", wallet[1]>>

\* What the client receives.
Response(q) ==
    [status |-> q.status, msg |-> q.msg, errors |-> q.errors, list |-> q.list,
     token |-> q.token, decoded |-> q.decoded]

FailsVerification(auth, t) == auth # <<>> /\ JwtVerify(HeaderToken(auth), Secret, t) = <<>>

Expired(auth, t) ==
    /\ FailsVerification(auth, t)
    /\ JwtVerifyIgnoreExpiration(HeaderToken(auth), Secret, t) # <<>>

\* C11: on GET /admin and GET /protected a request whose token fails
\* verification gets one and the same response (401, 'Invalid token'),
\* whether the token is expired, tampered or malformed; two answered requests
\* on one route whose tokens failed get identical responses.
C11_UniformInvalidToken ==
    /\ [][\A r \in Reqs :
            (/\ req[r].pc \in {"admin", "protected"}
             /\ req'[r].pc = "done"
             /\ FailsVerification(req[r].auth, now))
              => Response(req'[r]) =
                   [Response(IdleReq) EXCEPT !.status = 401, !.msg = MsgBadToken]]_vars
    /\ [](\A r, o \in Reqs :
            (/\ req[r].pc = "done" /\ req[o].pc = "done"
             /\ req[r].route = req[o].route
             /\ req[r].route \in {"/admin", "/protected"}
             /\ Has(req[r], "logger.error") /\ Has(req[o], "logger.error"))
              => Response(req[r]) = Response(req[o]))

C11_Witness ==
    \E r, o \in Reqs :
      /\ Done(r, "/protected") /\ Done(o, "/protected")
      /\ req[r].status = 401 /\ req[o].status = 401
      /\ Expired(req[r].auth, now)
      /\ Len(req[o].auth) = 2 /\ req[o].auth[2].sig = "forged"

\* The schema, constraint by constraint: the messages of the constraints that
\* a payload's field violates.
Broken(route, field, body) ==
    LET v == body[field] IN
    CASE field = "name" /\ route = "/register" ->
           {m \in {"name must be longer than or equal to 2 characters"} :
              v = NoVal \/ Len(v) < 2}
             \cup {m \in {"name must be a string"} : v = NoVal}
      [] field = "password" /\ route = "/register" ->
           {m \in {"password must be longer than or equal to 6 characters"} :
              v = NoVal \/ Len(v) < 6}
             \cup {m \in {"password must be a string"} : v = NoVal}
      [] field = "password" /\ route = "/login" ->
           {m \in {"password must be a string"} : v = NoVal}
      [] field = "email" ->
           {m \in {"email must be an email"} : v \notin WellFormedEmails}
      [] field = "role" /\ route = "/register" ->
           {m \in {"role must be one of the following values: user, admin"} :
              v \notin {NoVal, Null, "user", "admin"}}
      [] OTHER -> {}

BrokenFields(route, body) ==
    {f \in {"name", "email", "password", "role"} : Broken(route, f, body) # {}}

Validated(r) == req[r].route \in {"/register", "/login"} /\ req[r].pc # "idle"

Range(seq) == {seq[i] : i \in 1..Len(seq)}

ListsEveryViolation(q) ==
    /\ q.status = 400
    /\ q.msg = MsgValidation
    /\ Len(q.errors) = Cardinality(BrokenFields(q.route, q.body))
    /\ {Range(q.errors[i]) : i \in 1..Len(q.errors)}
         = {Broken(q.route, f, q.body) : f \in BrokenFields(q.route, q.body)}
    /\ \A i \in 1..Len(q.errors) :
         Len(q.errors[i]) = Cardinality(Range(q.errors[i]))
    /\ q.trace = <<"requestLogger", "rateLimiter", "validate", "respond">>

HandlerPcs ==
    {"regFind", "regSave", "regDel", "regRespond", "loginFind", "loginCheck", "unhandled"}

\* C12 as stated: every POST /register or POST /login whose payload violates
\* the schema is answered 400 'Validation failed' with all violated
\* constraints of every violating field, and its handler does not run.
C12_InvalidPayloadAlways400 ==
    \A r \in Reqs :
      (Validated(r) /\ BrokenFields(req[r].route, req[r].body) # {})
        => /\ req[r].pc \notin HandlerPcs
           /\ req[r].pc = "done" => ListsEveryViolation(req[r])

\* C12 amended: every POST /register or POST /login that the rate limiter
\* admits and whose payload violates the schema is answered 400 'Validation
\* failed' with all violated constraints of every violating field; the
\* handler of a request with such a payload never runs.
C12_AdmittedInvalidPayload400 ==
    \A r \in Reqs :
      (Validated(r) /\ BrokenFields(req[r].route, req[r].body) # {})
        => /\ req[r].pc \notin HandlerPcs
           /\ (req[r].pc = "done" /\ req[r].status # 429)
                => ListsEveryViolation(req[r])

C12_Witness ==
    \E r \in Reqs :
      /\ Done(r, "/register")
      /\ req[r].status = 400
      /\ Len(req[r].errors) = 3
      /\ Len(req[r].errors[1]) = 2

PassedValidation(q) ==
    /\ Has(q, "validate")
    /\ ~(q.status = 400 /\ q.msg = MsgValidation)

\* C13: with HASH_SALT unset, every POST /register that passes validation is
\* answered 500, whether or not its email is stored, and reads no row, writes
\* no row and deletes no key.
C13_NoSaltIs500 ==
    /\ [](\A r \in Reqs :
            (/\ env.HASH_SALT = 0
             /\ req[r].route = "/register"
             /\ PassedValidation(req[r]))
              => /\ req[r].pc \in {"regFind", "done"}
                 /\ req[r].pc = "done"
                      => /\ req[r].status = 500
                         /\ req[r].msg = MsgNoSalt
                         /\ req[r].trace =
                              <<"requestLogger", "rateLimiter", "validate", "respond">>)
    /\ [][env.HASH_SALT = 0 => UNCHANGED <<store, nextId, cache>>]_vars

C13_Witness ==
    \E r, o \in Reqs :
      /\ env.HASH_SALT = 0
      /\ Done(r, "/register") /\ Done(o, "/register")
      /\ req[r].status = 500 /\ req[o].status = 500
      /\ req[r].body.email \in Emails(store)
      /\ req[o].body.email \notin Emails(store)

\* C14: every request that arrived is eventually answered, also when a
\* store or cache call of its handler failed.
C14_EveryRequestAnswered ==
    \A r \in Reqs : (req[r].pc \notin {"idle", "done"}) ~> (req[r].pc = "done")

C16_UniqueEmailAndId ==
    /\ [](\A i, j \in 1..Len(store) :
            i # j => (store[i].email # store[j].email /\ store[i].id # store[j].id))
    /\ [][/\ Len(store') >= Len(store)
          /\ \A i \in 1..Len(store) :
               store'[i].id = store[i].id /\ store'[i].email = store[i].email]_vars

C16_Witness ==
    /\ Len(store) = 2
    /\ \E r \in Reqs : req[r].route = "/register" /\ SaveFailed(req[r])

RoleStoredFrom(r) ==
    /\ req[r].pc = "regSave"
    /\ Len(store') = Len(store) + 1
    /\ req'[r] # req[r]

NotStored(r) ==
    /\ ~Has(req[r], "save")
    /\ req[r].pc \notin HandlerPcs
    /\ Has(req[r], "validate")
         => (req[r].pc = "done" /\ req[r].status = 400 /\ req[r].msg = MsgValidation)

StoresGivenRole ==
    \A r \in Reqs :
      RoleStoredFrom(r)
        => LET row == store'[Len(store')] IN
           /\ req[r].body.role = NoVal => row.role = "user"
           /\ req[r].body.role \in UserRole => row.role = req[r].body.role

\* C17 as stated: every stored user has role USER or ADMIN; a registration
\* without a role stores USER, one with a valid role stores that role, and
\* one with any other role value is rejected by validation and stores nothing.
C17_OtherRolesRejected ==
    /\ [](\A i \in 1..Len(store) : store[i].role \in UserRole)
    /\ [][StoresGivenRole]_vars
    /\ [](\A r \in Reqs :
            (req[r].route = "/register" /\ req[r].body.role \notin UserRole \cup {NoVal})
              => NotStored(r))

\* C17 amended: every stored user has role USER or ADMIN; a registration
\* without a role or with the role null stores USER, one with a valid role
\* stores that role, and one with any other role value is rejected by
\* validation and stores nothing.
C17_RolesStored ==
    /\ [](\A i \in 1..Len(store) : store[i].role \in UserRole)
    /\ [][StoresGivenRole]_vars
    /\ [][\A r \in Reqs :
            (RoleStoredFrom(r) /\ req[r].body.role = Null)
              => store'[Len(store')].role = "user"]_vars
    /\ [](\A r \in Reqs :
            (req[r].route = "/register" /\ req[r].body.role \notin UserRole \cup {NoVal, Null})
              => NotStored(r))

C17_Witness ==
    \E r, o \in Reqs :
      /\ Done(r, "/register") /\ req[r].status = 201
      /\ req[r].body.role = NoVal
      /\ \E i \in 1..Len(store) :
           store[i].email = req[r].body.email /\ store[i].role = "user"
      /\ Done(o, "/register") /\ req[o].status = 400
      /\ req[o].body.role = "root"
      /\ req[o].msg = MsgValidation

RegisteredPassword(email) == (CHOOSE b \in {Ann, Bob} : b.email = email).password

HashedPassword(u) ==
    /\ u.password.alg = "bcrypt"
    /\ u.password.digest # <<RegisteredPassword(u.email)>>
    /\ BcryptCompare(RegisteredPassword(u.email), u.password)

\* C18: the password of every stored user, of every user in the cached list
\* and of every user that GET /users returned is the bcrypt hash of the
\* password the user registered with, never that password itself.
C18_OnlyHashes ==
    /\ \A i \in 1..Len(store) : HashedPassword(store[i])
    /\ cache # <<>> =>
         \A i \in 1..Len(JsonParse(cache[1].val)) : HashedPassword(JsonParse(cache[1].val)[i])
    /\ \A r \in Reqs :
         Done(r, "/users") => \A i \in 1..Len(req[r].list) : HashedPassword(req[r].list[i])

C18_Witness ==
    \E r, o \in Reqs :
      /\ Done(r, "/users") /\ req[r].hit /\ req[r].list # <<>>
      /\ Done(o, "/users") /\ ~req[o].hit /\ req[o].list # <<>>

\* C19: two GET /users that both missed the cache and both read the store,
\* and are both about to write the key, write the same set of users.
C19_ConcurrentMissesWriteSameSet ==
    \A r, o \in Reqs :
      (req[r].pc = "usersSet" /\ req[o].pc = "usersSet")
        => Emails(req[r].users) = Emails(req[o].users)

\* C20: a GET /users that finds the key returns the parsed value of the key,
\* reads no row and writes no key: the key keeps its value and its expiry.
C20_HitTouchesNothing ==
    [][\A r \in Reqs :
         (req[r].pc = "usersGet" /\ req'[r] # req[r] /\ cache # <<>>)
           => /\ req'[r].pc = "done"
              /\ req'[r].status = 200
              /\ req'[r].list = JsonParse(cache[1].val)
              /\ req'[r].trace = <<"requestLogger", "rateLimiter", "get", "respond">>
              /\ cache' = cache
              /\ store' = store]_vars

C20_Witness ==
    \E r \in Reqs :
      /\ Done(r, "/users")
      /\ req[r].hit
      /\ req[r].list # <<>>
      /\ cache # <<>>
      /\ req[r].list = JsonParse(cache[1].val)
      /\ cache[1].exp < now + CacheTTL

MissSteps(r) ==
    /\ (req[r].pc = "usersGet" /\ req'[r] # req[r] /\ cache = <<>>)
         => (req'[r].pc = "usersFind" /\ cache' = cache /\ store' = store)
    /\ (req[r].pc = "usersGet" /\ req'[r].pc = "usersFind") => cache = <<>>
    /\ (req[r].pc = "usersFind" /\ req'[r].pc = "usersSet")
         => (req'[r].users = store /\ cache' = cache /\ store' = store)
    /\ (req[r].pc = "usersSet" /\ req'[r].pc = "done")
         => /\ cache' = <<[val |-> JsonStringify(req[r].users), exp |-> now + 300]>>
            /\ req'[r].status = 200
            /\ req'[r].list = req[r].users
            /\ JsonParse(cache'[1].val) = req'[r].list
            /\ store' = store

HandlerBegun(q) ==
    \/ q.pc \in HandlerPcs
    \/ \E n \in {"findOne", "save", "del", "compare", "sign"} : Has(q, n)
    \/ q.msg \in {MsgNoSalt, MsgEmailUsed, MsgRegistered, MsgNoUser, MsgBadCreds}
    \/ q.status \in {200, 201, 500}

\* C22: on /register and /login the rate check comes first, validation runs
\* only for a request that was let through, and the handler begins only for
\* a payload that passed validation: a throttled request is never validated,
\* and an invalid payload never reaches the configuration check, the store
\* lookup or the hashing, so with HASH_SALT unset it still gets 400.
C22_StagesInOrder ==
    \A r \in Reqs :
      Validated(r) =>
        LET q == req[r] IN
        /\ q.trace[1] = "requestLogger"
        /\ Len(q.trace) >= 2 => q.trace[2] = "rateLimiter"
        /\ q.status = 429 => (~Has(q, "validate") /\ ~HandlerBegun(q))
        /\ Has(q, "validate") => (q.trace[3] = "validate" /\ q.status # 429)
        /\ HandlerBegun(q)
             => (Has(q, "validate") /\ BrokenFields(q.route, q.body) = {})
        /\ (BrokenFields(q.route, q.body) # {} /\ q.pc = "done" /\ q.status # 429)
             => (q.status = 400 /\ q.msg = MsgValidation)

C22_Witness ==
    \E r \in Reqs :
      /\ env.HASH_SALT = 0
      /\ Done(r, "/register")
      /\ BrokenFields("/register", req[r].body) # {}
      /\ req[r].status = 400
      /\ req[r].msg = MsgValidation
      /\ req[1].status = 429

ErrorLogged(q) ==
    \E i, j \in 1..Len(q.trace) :
      /\ i < j
      /\ q.trace[i] \in {"logger.error", "errorMiddleware"}
      /\ q.trace[j] = "respond"

\* C23: every response with an error status (400, 401, 403, 429, 500) is
\* preceded by an error log entry for its request.
C23_ErrorsLoggedFirst ==
    \A r \in Reqs :
      (req[r].pc = "done" /\ req[r].status >= 400) => ErrorLogged(req[r])

UnknownEmail(q) == q.body.email \notin Emails(store)

WrongPassword(q) ==
    /\ q.body.email \in q.stored
    /\ ~BcryptCompare(q.body.password, Row(q.body.email).password)

\* C24 as stated: every POST /login with an unknown email and every one with
\* a wrong password is answered 400 without a token, and the password is
\* compared only when the user exists.
C24_FailedLoginAlways400 ==
    \A r \in Reqs :
      (req[r].route = "/login" /\ req[r].pc # "idle")
        => LET q == req[r] IN
           /\ Has(q, "compare") => q.body.email \in Emails(store)
           /\ (q.pc = "done" /\ (UnknownEmail(q) \/ WrongPassword(q)))
                => (q.status = 400 /\ q.token = <<>>)

\* C24 amended: every POST /login that the rate limiter admits, with an
\* unknown email or with a wrong password, is answered 400 without a token;
\* a throttled one gets no token either; the password is compared only when
\* the user exists.
C24_AdmittedFailedLogin400 ==
    \A r \in Reqs :
      (req[r].route = "/login" /\ req[r].pc # "idle")
        => LET q == req[r] IN
           /\ Has(q, "compare") => q.body.email \in Emails(store)
           /\ (q.pc = "done" /\ (UnknownEmail(q) \/ WrongPassword(q)))
                => /\ q.token = <<>>
                   /\ q.status # 429 => q.status = 400
           /\ (q.pc = "done" /\ UnknownEmail(q)) => ~Has(q, "compare")

C24_Witness ==
    \E r \in Reqs :
      /\ Done(r, "/login")
      /\ WrongPassword(req[r])
      /\ Has(req[r], "compare")
      /\ req[r].status = 400
      /\ req[r].token = <<>>

Cached == JsonParse(cache[1].val)

\* C26: the cached list is the store as it was at an earlier moment: the
\* rows the store began with, in their order, so every cached user is a
\* stored user with the same id, email, role and password hash.
C26_CacheIsEarlierStore ==
    cache # <<>> =>
      /\ Len(Cached) <= Len(store)
      /\ Cached = SubSeq(store, 1, Len(Cached))
      /\ \A i \in 1..Len(Cached) :
           \E j \in 1..Len(store) :
             /\ store[j].id = Cached[i].id
             /\ store[j].email = Cached[i].email
             /\ store[j].role = Cached[i].role
             /\ store[j].password = Cached[i].password

C26_Witness ==
    /\ cache # <<>>
    /\ Len(store) = 2
    /\ Len(Cached) = 1
    /\ \E r \in Reqs : Done(r, "/register") /\ req[r].status = 201

Issued == Held \cup UNION {Range(req[r].token) : r \in Reqs}

StoredRole(id, role) ==
    \E i \in 1..Len(store) : store[i].id = id /\ store[i].role = role

\* C27: every unexpired token that POST /login issued carries the stored
\* role of the user with its userId, and GET /admin answers 200 only to a
\* request whose token names a user stored with role ADMIN.
C27_TokenRoleIsStoredRole ==
    /\ \A tok \in Issued : now < tok.exp => StoredRole(tok.userId, tok.role)
    /\ \A r \in Reqs :
         (Done(r, "/admin") /\ req[r].status = 200)
           => /\ Len(req[r].auth) = 2
              /\ StoredRole(req[r].auth[2].userId, "admin")

C27_Witness ==
    /\ \E r \in Reqs :
         /\ Done(r, "/admin")
         /\ req[r].status = 200
         /\ StoredRole(req[r].auth[2].userId, "admin")
    /\ wallet # <<>>
    /\ wallet[1].role = "user"
    /\ now < wallet[1].exp

\* The save of request q went through: the next stage is the redis.del, or
\* the throw of a rejected redis.del.
Saved(q) ==
    \/ q.pc = "regDel"
    \/ \E i \in 1..(Len(q.trace) - 1) :
         q.trace[i] = "save" /\ q.trace[i + 1] \in {"del", "throw"}

\* C28: the store changes only in the save of a POST /register that answers
\* 201 and the cache entry is deleted only by such a registration; a
\* registration that ends otherwise, and every other route, leaves the
\* store as it was.
C28_OnlyRegistration201Writes ==
    /\ [][store' # store
            => \E r \in Reqs : req[r].route = "/register" /\ req[r].pc = "regSave"]_vars
    /\ [][(cache # <<>> /\ cache' = <<>> /\ now' = now)
            => \E r \in Reqs : /\ req[r].route = "/register"
                               /\ req[r].pc = "regDel"
                               /\ req'[r].pc = "regRespond"]_vars
    /\ [](\A r \in Reqs :
            (/\ req[r].route = "/register"
             /\ req[r].pc \in {"done", "unhandled"}
             /\ Saved(req[r]))
              => req[r].status = 201)

Responses(q) == Cardinality({i \in 1..Len(q.trace) : q.trace[i] = "respond"})

\* C29: a request is answered at most once: the response is the last thing
\* that happens to it, so no stage runs and no second response is sent after
\* the rate limiter, validationMiddleware, checkRole or a handler answered.
C29_AnsweredAtMostOnce ==
    /\ [](\A r \in Reqs :
            /\ Responses(req[r]) <= 1
            /\ \A i \in 1..Len(req[r].trace) :
                 req[r].trace[i] = "respond"
                   => i = Len(req[r].trace) /\ req[r].pc = "done")
    /\ [][\A r \in Reqs :
            req[r].pc = "done"
              => \/ req'[r] = req[r]
                 \/ req'[r].trace = <<"requestLogger">>]_vars

C29_Witness ==
    /\ Done(1, "/register")
    /\ req[1].status = 400
    /\ req[1].errors # <<>>
    /\ Responses(req[1]) = 1
    /\ ~Has(req[1], "findOne")
    /\ Done(2, "/admin")
    /\ req[2].status = 403
    /\ Responses(req[2]) = 1
    /\ ~Has(req[2], "handler")
====
